---- MODULE Spec2Model ----
(***************************************************************************)
(* Model of the request handlers of the Ollama security proxy:             *)
(*   src/src/handlers/chat.rs      handle_chat and its helpers             *)
(*   src/src/handlers/generate.rs  handle_generate and its helpers         *)
(* The streaming engine (handlers::utils::handle_streaming_request), the   *)
(* violation formatter and the response builders live in handlers/utils,   *)
(* which is modelled from the design document (sections 4.5 and 4.6).      *)
(*                                                                         *)
(* Every request is handled by its own task; all handler state is indexed  *)
(* by the request.  Texts are sequences of characters.  An `await` of the  *)
(* security client or of the backend is one step of the task.              *)
(***************************************************************************)
EXTENDS Integers, Sequences, FiniteSets, TLC

\* ---------------------------------------------------------------- bounds
MaxMsgs == 2
MaxChunks == 3
MaxCadence == 2
PairMaxMsgs == 1

\* ------------------------------------------------------------ value sets
Reqs == {"r1", "r2"}
Kinds == {"chat", "generate"}
Models == {"llama3"}
Contents == {<<"a">>, <<"b">>}
Frags == {<<"a">>, <<"b">>}
Details == {"d1", "d2"}
MaskedText == <<"m">>
Formats == {"compact", "spaced"}
JsonKinds == {"ok", "wrong_shape", "invalid"}

\* Option<bool>: None is the empty sequence, Some(b) is <<b>>
None == <<>>
Some(b) == <<b>>
OptBool == {None, Some(TRUE), Some(FALSE)}
is_none(o) == Len(o) = 0
unwrap(o) == o[1]

SeqsUpTo(S, n) == UNION {[1..k -> S] : k \in 0..n}

\* ChatRequest / GenerateRequest.  A generate request carries its prompt as
\* the single element of `messages`.
ChatRequests ==
    [kind : {"chat"}, model : Models, messages : SeqsUpTo(Contents, MaxMsgs), stream : OptBool]
GenerateRequests ==
    [kind : {"generate"}, model : Models, messages : [1..1 -> Contents], stream : OptBool]
NoRequest == [kind |-> "none", model |-> "llama3", messages |-> <<>>, stream |-> None]

\* Result<Assessment, ApiError> of security_client.assess_content
AssessFail == [ok |-> FALSE]
Verdict(safe, masked, fc, d) ==
    [ok |-> TRUE, is_safe |-> safe, is_masked |-> masked, final_content |-> fc, detail |-> d]
Verdicts ==
    {Verdict(TRUE, FALSE, <<>>, "none"), Verdict(TRUE, TRUE, MaskedText, "none"),
     Verdict(FALSE, FALSE, <<>>, "d1"), Verdict(FALSE, TRUE, MaskedText, "d2")}
AssessOutcomes == Verdicts \cup {AssessFail}

\* handlers::utils::format_security_violation_message
format_security_violation_message(assessment) == <<"blocked", assessment.detail>>

\* Bytes of a backend body.  `fmt` stands for everything of the byte sequence
\* that the typed response does not keep (whitespace, field order, unknown
\* fields); `json` says whether the bytes are JSON and of the expected shape.
ShapeOf(kind) == IF kind = "chat" THEN "ChatResponse" ELSE "GenerateResponse"
BackendBodies(kind) ==
    [json : {"ok"}, shape : {ShapeOf(kind)}, model : Models, content : Contents,
     done : BOOLEAN, fmt : Formats]
    \cup [json : {"wrong_shape", "invalid"}, shape : {"other"}, model : Models,
          content : {<<>>}, done : {FALSE}, fmt : {"spaced"}]
NoBytes == [json |-> "none"]

\* ChatResponse / GenerateResponse (message.content / response is `content`)
TypedResponse(sh, m, c, d) == [shape |-> sh, model |-> m, content |-> c, done |-> d]
NoTyped == [model |-> "none"]
\* serde_json::from_slice::<ChatResponse|GenerateResponse>
from_slice(bytes) == TypedResponse(bytes.shape, bytes.model, bytes.content, bytes.done)
\* serde_json::to_vec: the canonical compact encoding
to_vec(typed) ==
    [json |-> "ok", shape |-> typed.shape, model |-> typed.model, content |-> typed.content,
     done |-> typed.done, fmt |-> "compact"]

\* handlers::utils::build_json_response / build_violation_response
build_json_response(bytes) == [tag |-> "response", status |-> "json", body |-> bytes]
build_violation_response(typed) == [tag |-> "response", status |-> "violation", body |-> to_vec(typed)]
ErrResult(e) == [tag |-> "error", error |-> e]
PanicResult == [tag |-> "panic"]
StreamResult == [tag |-> "stream"]
NoResult == [tag |-> "none"]

\* Stream Chunk: one line of the backend's incremental output.  The client
\* side of the stream also carries the two terminal chunks the screen emits.
Chunk(c, d) == [kind |-> "chunk", content |-> c, done |-> d]
ViolationChunk(assessment) ==
    [kind |-> "violation", content |-> format_security_violation_message(assessment), done |-> TRUE]
InterruptedChunk == [kind |-> "interrupted", content |-> <<>>, done |-> TRUE]

RECURSIVE Concat(_)
\* the text of a chunk sequence: the concatenation of the content fragments
Concat(chunks) ==
    IF chunks = <<>> THEN <<>>
    ELSE Concat(SubSeq(chunks, 1, Len(chunks) - 1)) \o chunks[Len(chunks)].content

VARIABLES request, pc, idx, trace, body_bytes, response_body, result,
          sstate, cadence, emitted, acc, pending, relayed

vars == <<request, pc, idx, trace, body_bytes, response_body, result,
          sstate, cadence, emitted, acc, pending, relayed>>
hvars == <<idx, body_bytes, response_body>>
svars == <<sstate, cadence, emitted, acc, pending, relayed>>

\* ---------------------------------------------------------------- events
AssessEv(src, pos, text, model, flag, out) ==
    [ev |-> "assess", src |-> src, pos |-> pos, text |-> text, model |-> model,
     is_prompt |-> flag, out |-> out]
ForwardEv(path, req, ok) == [ev |-> "forward", path |-> path, req |-> req, ok |-> ok]
\* log_llm_metrics(&json, false): `found` says whether the observer could
\* extract the metrics fields from the raw JSON
MetricsEv(found) == [ev |-> "metrics", found |-> found]

Log(r, e) == trace' = [trace EXCEPT ![r] = Append(@, e)]
Goto(r, l) == pc' = [pc EXCEPT ![r] = l]
Return(r, res, l) == /\ result' = [result EXCEPT ![r] = res]
                     /\ pc' = [pc EXCEPT ![r] = l]

Init ==
    /\ request = [r \in Reqs |-> NoRequest]
    /\ pc = [r \in Reqs |-> "idle"]
    /\ idx = [r \in Reqs |-> 0]
    /\ trace = [r \in Reqs |-> <<>>]
    /\ body_bytes = [r \in Reqs |-> NoBytes]
    /\ response_body = [r \in Reqs |-> NoTyped]
    /\ result = [r \in Reqs |-> NoResult]
    /\ sstate = [r \in Reqs |-> "NONE"]
    /\ cadence = [r \in Reqs |-> 1]
    /\ emitted = [r \in Reqs |-> <<>>]
    /\ acc = [r \in Reqs |-> <<>>]
    /\ pending = [r \in Reqs |-> <<>>]
    /\ relayed = [r \in Reqs |-> <<>>]

\* The router hands a deserialized request to handle_chat / handle_generate.
Receive(r) ==
    /\ pc[r] = "idle"
    /\ \E q \in ChatRequests \cup GenerateRequests :
          request' = [request EXCEPT ![r] = q]
    /\ Goto(r, "entry")
    /\ UNCHANGED <<idx, trace, body_bytes, response_body, result, svars>>

\* handle_chat, lines 57-62: debug!(.., request.stream.unwrap(), ..) panics on
\* an absent stream field when the debug level is enabled; whether it is
\* enabled is deployment configuration.  handle_generate logs no such field.
Entry(r) ==
    /\ pc[r] = "entry"
    /\ \/ /\ request[r].kind = "chat"
          /\ is_none(request[r].stream)
          /\ Return(r, PanicResult, "done")
          /\ UNCHANGED idx
       \/ /\ idx' = [idx EXCEPT ![r] = 1]
          /\ Goto(r, "screen")
          /\ UNCHANGED result
    /\ UNCHANGED <<request, trace, body_bytes, response_body, svars>>

\* variant of PromptAssessOutcome that assesses the remaining messages after
\* an unsafe verdict and answers with the violation at the last message
PromptAssessOutcome_NotFailFast(r, out) ==
    LET q == request[r]
        src == IF q.kind = "chat" THEN "message" ELSE "prompt"
    IN  /\ Log(r, AssessEv(src, idx[r], q.messages[idx[r]], q.model, TRUE, out))
        /\ IF ~out.ok
             THEN Return(r, ErrResult("assessment"), "done") /\ UNCHANGED idx
           ELSE IF ~out.is_safe /\ idx[r] = Len(q.messages)
             THEN /\ Return(r, build_violation_response(
                          TypedResponse(ShapeOf(q.kind), q.model,
                                        format_security_violation_message(out), TRUE)), "done")
                  /\ UNCHANGED idx
           ELSE /\ idx' = [idx EXCEPT ![r] = @ + 1]
                /\ UNCHANGED <<pc, result>>

\* variant of PromptAssessOutcome that goes on after an unsafe verdict
PromptAssessOutcome_IgnoreUnsafe(r, out) ==
    LET q == request[r]
        src == IF q.kind = "chat" THEN "message" ELSE "prompt"
    IN  /\ Log(r, AssessEv(src, idx[r], q.messages[idx[r]], q.model, TRUE, out))
        /\ IF ~out.ok
             THEN Return(r, ErrResult("assessment"), "done") /\ UNCHANGED idx
           ELSE /\ idx' = [idx EXCEPT ![r] = @ + 1]
                /\ UNCHANGED <<pc, result>>

\* assess_chat_messages: one iteration of the loop over request.messages;
\* assess_generate_prompt: the single assessment of request.prompt.
PromptAssessOutcome(r, out) ==
    LET q == request[r]
        src == IF q.kind = "chat" THEN "message" ELSE "prompt"
    IN  /\ Log(r, AssessEv(src, idx[r], q.messages[idx[r]], q.model, TRUE, out))
        /\ IF ~out.ok
             THEN Return(r, ErrResult("assessment"), "done") /\ UNCHANGED idx
           ELSE IF ~out.is_safe
             THEN /\ Return(r, build_violation_response(
                          TypedResponse(ShapeOf(q.kind), q.model,
                                        format_security_violation_message(out), TRUE)), "done")
                  /\ UNCHANGED idx
           ELSE /\ idx' = [idx EXCEPT ![r] = @ + 1]
                /\ UNCHANGED <<pc, result>>

\* variant of AssessPrompt that reuses the verdict of an identical earlier
\* message instead of assessing again
AssessPrompt_Cached(r) ==
    /\ pc[r] = "screen"
    /\ idx[r] <= Len(request[r].messages)
    /\ IF \E j \in 1..(idx[r] - 1) : request[r].messages[j] = request[r].messages[idx[r]]
         THEN /\ idx' = [idx EXCEPT ![r] = @ + 1]
              /\ UNCHANGED <<pc, result, trace>>
         ELSE \E out \in AssessOutcomes : PromptAssessOutcome(r, out)
    /\ UNCHANGED <<request, body_bytes, response_body, svars>>

AssessPrompt(r) ==
    /\ pc[r] = "screen"
    /\ idx[r] <= Len(request[r].messages)
    /\ \E out \in AssessOutcomes : PromptAssessOutcome(r, out)
    /\ UNCHANGED <<request, body_bytes, response_body, svars>>

\* handle_chat lines 69-76 / handle_generate lines 47-54: Ok(Ok(())) from the
\* screen, then request.stream.unwrap() selects the mode.
Route(r) ==
    /\ pc[r] = "screen"
    /\ idx[r] > Len(request[r].messages)
    /\ IF is_none(request[r].stream) THEN Return(r, PanicResult, "done")
       ELSE IF unwrap(request[r].stream) THEN Goto(r, "streaming") /\ UNCHANGED result
       ELSE Goto(r, "non_streaming") /\ UNCHANGED result
    /\ UNCHANGED <<request, idx, trace, body_bytes, response_body, svars>>

Path(r) == IF request[r].kind = "chat" THEN "/api/chat" ELSE "/api/generate"

\* the request with every message whose verdict was masked replaced by the
\* verdict's final_content
MaskedRequest(r) ==
    [request[r] EXCEPT !.messages =
        [i \in 1..Len(request[r].messages) |->
            IF trace[r][i].out.is_masked THEN trace[r][i].out.final_content
            ELSE request[r].messages[i]]]

\* variant of Forward that forwards the masked prompt
Forward_SubstituteMasked(r) ==
    /\ pc[r] = "non_streaming"
    /\ \/ /\ Log(r, ForwardEv(Path(r), MaskedRequest(r), FALSE))
          /\ Return(r, ErrResult("backend"), "done")
          /\ UNCHANGED body_bytes
       \/ /\ Log(r, ForwardEv(Path(r), MaskedRequest(r), TRUE))
          /\ \/ /\ Return(r, ErrResult("read_body"), "done")
                /\ UNCHANGED body_bytes
             \/ /\ \E b \in BackendBodies(request[r].kind) : body_bytes' = [body_bytes EXCEPT ![r] = b]
                /\ Goto(r, "parse")
                /\ UNCHANGED result
    /\ UNCHANGED <<request, idx, response_body, svars>>

\* handle_non_streaming_*: ollama_client.forward(..).await? and
\* response.bytes().await
Forward(r) ==
    /\ pc[r] = "non_streaming"
    /\ \/ /\ Log(r, ForwardEv(Path(r), request[r], FALSE))
          /\ Return(r, ErrResult("backend"), "done")
          /\ UNCHANGED body_bytes
       \/ /\ Log(r, ForwardEv(Path(r), request[r], TRUE))
          /\ \/ /\ Return(r, ErrResult("read_body"), "done")
                /\ UNCHANGED body_bytes
             \/ /\ \E b \in BackendBodies(request[r].kind) : body_bytes' = [body_bytes EXCEPT ![r] = b]
                /\ Goto(r, "parse")
                /\ UNCHANGED result
    /\ UNCHANGED <<request, idx, response_body, svars>>

\* variant of Parse that returns a parsed backend body without assessing it
Parse_SkipAssess(r) ==
    /\ pc[r] = "parse"
    /\ LET b == body_bytes[r]
           metrics == IF request[r].kind = "chat" THEN b.json = "ok" ELSE b.json # "invalid"
       IN  /\ IF metrics
                THEN \E found \in BOOLEAN : Log(r, MetricsEv(found))
                ELSE UNCHANGED trace
           /\ IF b.json = "ok"
                THEN /\ response_body' = [response_body EXCEPT ![r] = from_slice(b)]
                     /\ Return(r, build_json_response(b), "done")
                ELSE /\ Return(r, ErrResult("parse"), "done")
                     /\ UNCHANGED response_body
    /\ UNCHANGED <<request, idx, body_bytes, svars>>

\* variant of Parse that answers an unparsable backend body with a violation
\* response
Parse_ViolationOnError(r) ==
    /\ pc[r] = "parse"
    /\ LET b == body_bytes[r]
           metrics == IF request[r].kind = "chat" THEN b.json = "ok" ELSE b.json # "invalid"
       IN  /\ IF metrics
                THEN \E found \in BOOLEAN : Log(r, MetricsEv(found))
                ELSE UNCHANGED trace
           /\ IF b.json = "ok"
                THEN /\ response_body' = [response_body EXCEPT ![r] = from_slice(b)]
                     /\ Goto(r, "assess_response")
                     /\ UNCHANGED result
                ELSE /\ Return(r, build_violation_response(
                            TypedResponse(ShapeOf(request[r].kind), request[r].model,
                                          <<"blocked", "none">>, TRUE)), "done")
                     /\ UNCHANGED response_body
    /\ UNCHANGED <<request, idx, body_bytes, svars>>

\* chat lines 162-173: typed parse, then the metrics on the raw JSON;
\* generate lines 126-135: the metrics on the raw JSON, then the typed parse.
Parse(r) ==
    /\ pc[r] = "parse"
    /\ LET b == body_bytes[r]
           metrics == IF request[r].kind = "chat" THEN b.json = "ok" ELSE b.json # "invalid"
       IN  /\ IF metrics
                THEN \E found \in BOOLEAN : Log(r, MetricsEv(found))
                ELSE UNCHANGED trace
           /\ IF b.json = "ok"
                THEN /\ response_body' = [response_body EXCEPT ![r] = from_slice(b)]
                     /\ Goto(r, "assess_response")
                     /\ UNCHANGED result
                ELSE /\ Return(r, ErrResult("parse"), "done")
                     /\ UNCHANGED response_body
    /\ UNCHANGED <<request, idx, body_bytes, svars>>

\* variant of ChatVerdict that returns the re-serialized typed response
ChatVerdict_Reserialize(r, out) ==
    IF ~out.ok THEN ErrResult("assessment")
    ELSE IF ~out.is_safe
      THEN build_violation_response(
             [response_body[r] EXCEPT !.content = format_security_violation_message(out)])
    ELSE build_json_response(to_vec(response_body[r]))

\* chat lines 175-190
ChatVerdict(r, out) ==
    IF ~out.ok THEN ErrResult("assessment")
    ELSE IF ~out.is_safe
      THEN build_violation_response(
             [response_body[r] EXCEPT !.content = format_security_violation_message(out)])
    ELSE build_json_response(body_bytes[r])

\* variant of GenerateVerdict that tests is_masked before is_safe
GenerateVerdict_MaskFirst(r, out) ==
    IF ~out.ok THEN ErrResult("assessment")
    ELSE IF out.is_masked
      THEN build_json_response(to_vec([response_body[r] EXCEPT !.content = out.final_content]))
    ELSE IF ~out.is_safe
      THEN build_violation_response(
             [response_body[r] EXCEPT !.content = format_security_violation_message(out)])
    ELSE build_json_response(body_bytes[r])

\* variant of GenerateVerdict that passes the backend body through when the
\* assessment call fails
GenerateVerdict_FailOpen(r, out) ==
    IF ~out.ok THEN build_json_response(body_bytes[r])
    ELSE IF ~out.is_safe
      THEN build_violation_response(
             [response_body[r] EXCEPT !.content = format_security_violation_message(out)])
    ELSE IF out.is_masked
      THEN build_json_response(to_vec([response_body[r] EXCEPT !.content = out.final_content]))
    ELSE build_json_response(body_bytes[r])

\* generate lines 137-166
GenerateVerdict(r, out) ==
    IF ~out.ok THEN ErrResult("assessment")
    ELSE IF ~out.is_safe
      THEN build_violation_response(
             [response_body[r] EXCEPT !.content = format_security_violation_message(out)])
    ELSE IF out.is_masked
      THEN build_json_response(to_vec([response_body[r] EXCEPT !.content = out.final_content]))
    ELSE build_json_response(body_bytes[r])

\* variant of AssessResponse that refuses the response when the metrics
\* extraction found nothing
AssessResponse_MetricsGate(r) ==
    /\ pc[r] = "assess_response"
    /\ \E out \in AssessOutcomes :
          /\ Log(r, AssessEv("response", 1, response_body[r].content, request[r].model, FALSE, out))
          /\ Return(r, IF \E i \in 1..Len(trace[r]) :
                            trace[r][i].ev = "metrics" /\ ~trace[r][i].found
                         THEN ErrResult("metrics")
                       ELSE IF request[r].kind = "chat" THEN ChatVerdict(r, out)
                       ELSE GenerateVerdict(r, out), "done")
    /\ UNCHANGED <<request, idx, body_bytes, response_body, svars>>

\* variant of AssessResponse that decides with the verdict another request
\* received last, when there is one
AssessResponse_SharedVerdict(r) ==
    /\ pc[r] = "assess_response"
    /\ \E out \in AssessOutcomes :
          LET others == {s \in Reqs \ {r} :
                            /\ pc[s] = "done" /\ Len(trace[s]) > 0
                            /\ trace[s][Len(trace[s])].ev = "assess"
                            /\ trace[s][Len(trace[s])].src = "response"}
              used == IF others = {} THEN out
                      ELSE LET s == CHOOSE s \in others : TRUE
                           IN  trace[s][Len(trace[s])].out
          IN  /\ Log(r, AssessEv("response", 1, response_body[r].content, request[r].model, FALSE, out))
              /\ Return(r, IF request[r].kind = "chat" THEN ChatVerdict(r, used)
                           ELSE GenerateVerdict(r, used), "done")
    /\ UNCHANGED <<request, idx, body_bytes, response_body, svars>>

\* variant of AssessResponse that submits the response with the prompt flag
AssessResponse_AsPrompt(r) ==
    /\ pc[r] = "assess_response"
    /\ \E out \in AssessOutcomes :
          /\ Log(r, AssessEv("response", 1, response_body[r].content, request[r].model, TRUE, out))
          /\ Return(r, IF request[r].kind = "chat" THEN ChatVerdict(r, out)
                       ELSE GenerateVerdict(r, out), "done")
    /\ UNCHANGED <<request, idx, body_bytes, response_body, svars>>

AssessResponse(r) ==
    /\ pc[r] = "assess_response"
    /\ \E out \in AssessOutcomes :
          /\ Log(r, AssessEv("response", 1, response_body[r].content, request[r].model, FALSE, out))
          /\ Return(r, IF request[r].kind = "chat" THEN ChatVerdict(r, out)
                       ELSE GenerateVerdict(r, out), "done")
    /\ UNCHANGED <<request, idx, body_bytes, response_body, svars>>

\* ------------------------------------------------------ Streaming Screen
\* handle_streaming_chat / handle_streaming_generate call
\* handle_streaming_request(&state, request, path, &model, false): the request
\* is forwarded and the response is the screened stream.  The assessment
\* cadence (every `cadence` chunks) is configuration.
StreamForward(r) ==
    /\ pc[r] = "streaming"
    /\ \/ /\ Log(r, ForwardEv(Path(r), request[r], FALSE))
          /\ Return(r, ErrResult("backend"), "done")
          /\ UNCHANGED <<sstate, cadence>>
       \/ /\ Log(r, ForwardEv(Path(r), request[r], TRUE))
          /\ Return(r, StreamResult, "stream_recv")
          /\ sstate' = [sstate EXCEPT ![r] = "ACCUMULATING"]
          /\ \E n \in 1..MaxCadence : cadence' = [cadence EXCEPT ![r] = n]
    /\ UNCHANGED <<request, hvars, emitted, acc, pending, relayed>>

\* variant of AssessDue that follows the cadence only
AssessDue_CadenceOnly(r, c) == Len(pending[r]) + 1 >= cadence[r]

\* whether the screen assesses after buffering chunk c
AssessDue(r, c) == c.done \/ Len(pending[r]) + 1 >= cadence[r]

\* variant of StreamRecv that relays a chunk as soon as it arrives
StreamRecv_RelayOnArrival(r) ==
    /\ pc[r] = "stream_recv"
    /\ \E c \in {Chunk(f, d) : f \in Frags, d \in BOOLEAN} :
          /\ Len(emitted[r]) + 1 = MaxChunks => c.done
          /\ emitted' = [emitted EXCEPT ![r] = Append(@, c)]
          /\ acc' = [acc EXCEPT ![r] = @ \o c.content]
          /\ pending' = [pending EXCEPT ![r] = Append(@, c)]
          /\ relayed' = [relayed EXCEPT ![r] = Append(@, c)]
          /\ trace' = [trace EXCEPT ![r] = Append(@, [ev |-> "relay", pos |-> Len(emitted[r]) + 1])]
          /\ Goto(r, IF AssessDue(r, c) THEN "stream_assess" ELSE "stream_recv")
    /\ UNCHANGED <<request, hvars, result, sstate, cadence>>

\* variant of StreamRecv that keeps only the newest chunk in the buffer
StreamRecv_KeepNewest(r) ==
    /\ pc[r] = "stream_recv"
    /\ \E c \in {Chunk(f, d) : f \in Frags, d \in BOOLEAN} :
          /\ Len(emitted[r]) + 1 = MaxChunks => c.done
          /\ emitted' = [emitted EXCEPT ![r] = Append(@, c)]
          /\ acc' = [acc EXCEPT ![r] = @ \o c.content]
          /\ pending' = [pending EXCEPT ![r] = <<c>>]
          /\ Goto(r, IF AssessDue(r, c) THEN "stream_assess" ELSE "stream_recv")
    /\ UNCHANGED <<request, hvars, trace, result, sstate, cadence, relayed>>

\* the next chunk of the backend arrives: append its fragment to the
\* accumulation buffer and buffer the chunk until the next assessment point
StreamRecv(r) ==
    /\ pc[r] = "stream_recv"
    /\ \E c \in {Chunk(f, d) : f \in Frags, d \in BOOLEAN} :
          /\ Len(emitted[r]) + 1 = MaxChunks => c.done
          /\ emitted' = [emitted EXCEPT ![r] = Append(@, c)]
          /\ acc' = [acc EXCEPT ![r] = @ \o c.content]
          /\ pending' = [pending EXCEPT ![r] = Append(@, c)]
          /\ Goto(r, IF AssessDue(r, c) THEN "stream_assess" ELSE "stream_recv")
    /\ UNCHANGED <<request, hvars, trace, result, sstate, cadence, relayed>>

\* backend connection failure mid-stream: a best-effort terminal chunk
StreamInterrupted(r) ==
    /\ pc[r] = "stream_recv"
    /\ sstate' = [sstate EXCEPT ![r] = "INTERRUPTED"]
    /\ relayed' = [relayed EXCEPT ![r] = Append(@, InterruptedChunk)]
    /\ pending' = [pending EXCEPT ![r] = <<>>]
    /\ Goto(r, "done")
    /\ UNCHANGED <<request, hvars, trace, result, cadence, emitted, acc>>

RelayEv(k) == [ev |-> "relay", pos |-> k]
\* relay events of the buffered chunks, numbered by their backend position
RelayEvents(r) ==
    [i \in 1..Len(pending[r]) |-> RelayEv(Len(emitted[r]) - Len(pending[r]) + i)]

\* variant of StreamVerdict that emits the violation chunk on an unsafe
\* verdict but keeps reading the backend
StreamVerdict_NoClose(r, out) ==
    LET last == emitted[r][Len(emitted[r])]
        a == AssessEv("stream", Len(emitted[r]), acc[r], request[r].model, FALSE, out)
    IN  IF ~out.ok
          THEN /\ trace' = [trace EXCEPT ![r] = Append(@, a)]
               /\ sstate' = [sstate EXCEPT ![r] = "FAILED"]
               /\ pending' = [pending EXCEPT ![r] = <<>>]
               /\ Goto(r, "done")
               /\ UNCHANGED relayed
        ELSE IF ~out.is_safe
          THEN /\ trace' = [trace EXCEPT ![r] = Append(@, a)]
               /\ sstate' = [sstate EXCEPT ![r] = "BLOCKED"]
               /\ relayed' = [relayed EXCEPT ![r] = Append(@, ViolationChunk(out))]
               /\ pending' = [pending EXCEPT ![r] = <<>>]
               /\ Goto(r, IF last.done THEN "done" ELSE "stream_recv")
        ELSE /\ trace' = [trace EXCEPT ![r] = Append(@, a) \o RelayEvents(r)]
             /\ relayed' = [relayed EXCEPT ![r] = @ \o pending[r]]
             /\ pending' = [pending EXCEPT ![r] = <<>>]
             /\ sstate' = [sstate EXCEPT ![r] = IF last.done THEN "DONE" ELSE "RELAYING"]
             /\ Goto(r, IF last.done THEN "done" ELSE "stream_recv")

\* the verdict over the full accumulated text
StreamVerdict(r, out) ==
    LET last == emitted[r][Len(emitted[r])]
        a == AssessEv("stream", Len(emitted[r]), acc[r], request[r].model, FALSE, out)
    IN  IF ~out.ok
          THEN \* fail-closed: the buffered chunks are dropped, the stream ends
               /\ trace' = [trace EXCEPT ![r] = Append(@, a)]
               /\ sstate' = [sstate EXCEPT ![r] = "FAILED"]
               /\ pending' = [pending EXCEPT ![r] = <<>>]
               /\ Goto(r, "done")
               /\ UNCHANGED relayed
        ELSE IF ~out.is_safe
          THEN /\ trace' = [trace EXCEPT ![r] = Append(@, a)]
               /\ sstate' = [sstate EXCEPT ![r] = "BLOCKED"]
               /\ relayed' = [relayed EXCEPT ![r] = Append(@, ViolationChunk(out))]
               /\ pending' = [pending EXCEPT ![r] = <<>>]
               /\ Goto(r, "done")
        ELSE /\ trace' = [trace EXCEPT ![r] = Append(@, a) \o RelayEvents(r)]
             /\ relayed' = [relayed EXCEPT ![r] = @ \o pending[r]]
             /\ pending' = [pending EXCEPT ![r] = <<>>]
             /\ sstate' = [sstate EXCEPT ![r] = IF last.done THEN "DONE" ELSE "RELAYING"]
             /\ Goto(r, IF last.done THEN "done" ELSE "stream_recv")

StreamAssess(r) ==
    /\ pc[r] = "stream_assess"
    /\ \E out \in AssessOutcomes : StreamVerdict(r, out)
    /\ UNCHANGED <<request, hvars, result, cadence, emitted, acc>>

Step(r) ==
    \/ Receive(r)
    \/ Entry(r)
    \/ AssessPrompt(r)
    \/ Route(r)
    \/ Forward(r)
    \/ Parse(r)
    \/ AssessResponse(r)
    \/ StreamForward(r)
    \/ StreamRecv(r)
    \/ StreamInterrupted(r)
    \/ StreamAssess(r)

Next == Step("r1")

Spec == Init /\ [][Next]_vars

\* Two requests handled at the same time by two tasks, their steps
\* interleaved.  Non-streaming requests of at most PairMaxMsgs messages, with
\* the stream field false or absent.
PairRequests ==
    {q \in ChatRequests \cup GenerateRequests :
        /\ q.stream \in {None, Some(FALSE)}
        /\ Len(q.messages) <= PairMaxMsgs
        /\ \A i \in 1..Len(q.messages) : q.messages[i] = <<"a">>}

ReceivePair(r) ==
    /\ pc[r] = "idle"
    /\ \E q \in PairRequests : request' = [request EXCEPT ![r] = q]
    /\ Goto(r, "entry")
    /\ UNCHANGED <<idx, trace, body_bytes, response_body, result, svars>>

PairStep(r) ==
    \/ ReceivePair(r)
    \/ Entry(r)
    \/ AssessPrompt(r)
    \/ Route(r)
    \/ Forward(r)
    \/ Parse(r)
    \/ AssessResponse(r)

PairNext == \E r \in Reqs : PairStep(r)

PairSpec == Init /\ [][PairNext]_vars

\* ------------------------------------------------------------ properties
IsAssess(e) == e.ev = "assess"
IsForward(e) == e.ev = "forward"
IsRelay(e) == e.ev = "relay"
Positions(r) == 1..Len(trace[r])
NMsgs(r) == Len(request[r].messages)
Stream(r) == request[r].stream
Forwarded(r) == \E i \in Positions(r) : IsForward(trace[r][i])
UnsafePromptAt(r, i) ==
    /\ IsAssess(trace[r][i]) /\ trace[r][i].is_prompt
    /\ trace[r][i].out.ok /\ ~trace[r][i].out.is_safe

\* C1: a request with a client-submitted text that received an unsafe verdict
\* has returned the violation response of its response type (done = true, the
\* formatted violation message as content) and has not called the backend.
C1_UnsafePromptBlocks ==
    \A r \in Reqs : \A i \in Positions(r) :
        UnsafePromptAt(r, i) =>
            /\ ~Forwarded(r)
            /\ pc[r] = "done"
            /\ result[r] = build_violation_response(
                   TypedResponse(ShapeOf(request[r].kind), request[r].model,
                                 format_security_violation_message(trace[r][i].out), TRUE))
            /\ result[r].status = "violation"
            /\ result[r].body.shape = ShapeOf(request[r].kind)

\* a streaming chat request whose second message was judged unsafe
C1_Witness ==
    \E r \in Reqs :
        /\ request[r].kind = "chat" /\ Stream(r) = Some(TRUE)
        /\ Len(trace[r]) = 2 /\ UnsafePromptAt(r, 2)
        /\ result[r].tag = "response"

\* C2: in a chat request with n >= 2 messages all judged safe, the first n
\* events of the request are the prompt assessments of messages 1..n in
\* order, there is no other prompt assessment, and a backend forward call
\* happens only after all n.
C2_AllMessagesAssessedInOrder ==
    \A r \in Reqs :
        (request[r].kind = "chat" /\ NMsgs(r) >= 2) =>
            /\ idx[r] > NMsgs(r) =>
                  /\ Len(trace[r]) >= NMsgs(r)
                  /\ \A i \in 1..NMsgs(r) :
                        /\ IsAssess(trace[r][i]) /\ trace[r][i].is_prompt
                        /\ trace[r][i].pos = i
                        /\ trace[r][i].text = request[r].messages[i]
                        /\ trace[r][i].out.ok /\ trace[r][i].out.is_safe
                  /\ \A i \in Positions(r) :
                        (IsAssess(trace[r][i]) /\ trace[r][i].is_prompt) => i <= NMsgs(r)
            /\ \A i \in Positions(r) :
                  IsForward(trace[r][i]) => (i = NMsgs(r) + 1 /\ idx[r] > NMsgs(r))

\* a chat request with two identical messages, both judged safe, forwarded
C2_Witness ==
    \E r \in Reqs :
        /\ request[r].kind = "chat" /\ NMsgs(r) = MaxMsgs
        /\ request[r].messages[1] = request[r].messages[2]
        /\ idx[r] > NMsgs(r)
        /\ Forwarded(r)

\* the client-side stream without its terminal (violation / interruption) chunk
ContentChunks(r) == SelectSeq(relayed[r], LAMBDA c : c.kind = "chunk")
RelayTrace(r) == SelectSeq(trace[r], IsRelay)
IsPrefix(s, t) == Len(s) <= Len(t) /\ \A i \in 1..Len(s) : s[i] = t[i]
\* the event at position i is a completed safe assessment of the text
\* accumulated over the first trace[r][i].pos >= k backend chunks
SafeCoverAt(r, i, k) ==
    /\ IsAssess(trace[r][i]) /\ ~trace[r][i].is_prompt /\ trace[r][i].src = "stream"
    /\ trace[r][i].out.ok /\ trace[r][i].out.is_safe
    /\ trace[r][i].pos >= k /\ trace[r][i].pos <= Len(emitted[r])
    /\ trace[r][i].text = Concat(SubSeq(emitted[r], 1, trace[r][i].pos))
\* the number of backend chunks covered by safe assessments so far
SafeCovered(r) ==
    LET S == {trace[r][i].pos : i \in {j \in Positions(r) : SafeCoverAt(r, j, 0)}}
    IN  IF S = {} THEN 0 ELSE CHOOSE m \in S : \A x \in S : x <= m

\* C3: in streaming mode every relay of backend chunk k comes after a
\* completed safe assessment of an accumulated text that includes chunk k; the
\* relayed content chunks are a prefix of the backend's chunks, each relayed
\* once, in backend order.
C3_RelayedChunksCoveredInOrder ==
    \A r \in Reqs :
        /\ \A p \in Positions(r) :
              IsRelay(trace[r][p]) => \E i \in 1..(p - 1) : SafeCoverAt(r, i, trace[r][p].pos)
        /\ IsPrefix(ContentChunks(r), emitted[r])
        /\ Len(ContentChunks(r)) <= SafeCovered(r)
        /\ Len(RelayTrace(r)) = Len(ContentChunks(r))
        /\ \A i \in 1..Len(RelayTrace(r)) : RelayTrace(r)[i].pos = i
        /\ \A i \in 1..Len(relayed[r]) : relayed[r][i].kind = "chunk" => i <= Len(ContentChunks(r))

\* a stream assessed every two chunks that relayed three chunks
C3_Witness ==
    \E r \in Reqs :
        /\ cadence[r] = 2 /\ Len(ContentChunks(r)) = 3
        /\ \E i \in 1..Len(emitted[r]) : emitted[r][i].content # emitted[r][1].content

NViolationChunks(r) == Cardinality({i \in 1..Len(relayed[r]) : relayed[r][i].kind = "violation"})
BlockedShape(r) ==
    LET n == Len(relayed[r])
        last == trace[r][Len(trace[r])]
    IN  /\ pc[r] = "done" /\ pending[r] = <<>>
        /\ IsAssess(last) /\ last.src = "stream" /\ last.out.ok /\ ~last.out.is_safe
        /\ last.text = Concat(emitted[r]) /\ last.pos = Len(emitted[r])
        /\ n >= 1 /\ relayed[r][n] = ViolationChunk(last.out) /\ relayed[r][n].done
        /\ NViolationChunks(r) = 1
        /\ n - 1 = SafeCovered(r) /\ n - 1 < Len(emitted[r])
        /\ \A i \in 1..(n - 1) : relayed[r][i] = emitted[r][i]
\* C4: when the accumulated text up to chunk k is judged unsafe, the client
\* stream is the chunks relayed before that verdict followed by exactly one
\* violation chunk with done = true, the stream is closed, what was relayed
\* is never retracted, and afterwards no backend chunk is consumed or relayed.
C4_UnsafeStreamBlocked ==
    /\ [](\A r \in Reqs : sstate[r] = "BLOCKED" => BlockedShape(r))
    /\ [][\A r \in Reqs :
            /\ IsPrefix(relayed[r], relayed'[r])
            /\ sstate[r] = "BLOCKED" =>
                  (sstate'[r] = "BLOCKED" /\ emitted'[r] = emitted[r] /\ relayed'[r] = relayed[r])]_vars

\* a stream blocked at its second chunk after the first chunk was relayed
C4_Witness ==
    \E r \in Reqs :
        /\ sstate[r] = "BLOCKED" /\ Len(emitted[r]) = 2 /\ Len(relayed[r]) = 2
        /\ ~emitted[r][2].done

\* C5: when the stream reaches DONE (every assessment of the accumulated text
\* returned safe) the relayed contents concatenate to exactly the backend
\* contents, chunk for chunk.
C5_SafeStreamRelayedExactly ==
    \A r \in Reqs :
        sstate[r] = "DONE" =>
            /\ Concat(relayed[r]) = Concat(emitted[r])
            /\ Concat(relayed[r]) = acc[r]
            /\ relayed[r] = emitted[r]
            /\ emitted[r][Len(emitted[r])].done

\* a completed stream of three chunks with different fragments, assessed
\* every two chunks
C5_Witness ==
    \E r \in Reqs :
        /\ sstate[r] = "DONE" /\ cadence[r] = 2 /\ Len(emitted[r]) = 3
        /\ emitted[r][1].content # emitted[r][2].content

\* the request ended with the assessment of a non-streaming response
ResponseAssessed(r) ==
    /\ pc[r] = "done" /\ Len(trace[r]) > 0
    /\ IsAssess(trace[r][Len(trace[r])]) /\ trace[r][Len(trace[r])].src = "response"
ResponseVerdict(r) == trace[r][Len(trace[r])].out

\* C6: a non-streaming response whose verdict is safe and masked is delivered
\* with the verdict's final_content as content, on the chat and on the
\* generate endpoint.
C6_MaskedContentDelivered ==
    \A r \in Reqs :
        (/\ ResponseAssessed(r) /\ ResponseVerdict(r).ok
         /\ ResponseVerdict(r).is_safe /\ ResponseVerdict(r).is_masked) =>
            /\ result[r].tag = "response"
            /\ result[r].body.content = ResponseVerdict(r).final_content

\* C7: a non-streaming response whose verdict is safe and not masked is
\* delivered as the byte sequence read from the backend.
C7_UnmaskedBytesVerbatim ==
    \A r \in Reqs :
        (/\ ResponseAssessed(r) /\ ResponseVerdict(r).ok
         /\ ResponseVerdict(r).is_safe /\ ~ResponseVerdict(r).is_masked) =>
            /\ result[r].tag = "response" /\ result[r].status = "json"
            /\ result[r].body = body_bytes[r]

\* a safe unmasked chat response whose bytes are not in the canonical encoding
C7_Witness ==
    \E r \in Reqs :
        /\ request[r].kind = "chat" /\ ResponseAssessed(r)
        /\ ResponseVerdict(r).ok /\ ResponseVerdict(r).is_safe /\ ~ResponseVerdict(r).is_masked
        /\ body_bytes[r].fmt = "spaced"
        /\ to_vec(from_slice(body_bytes[r])) # body_bytes[r]

FailedAssessAt(r, i) == IsAssess(trace[r][i]) /\ ~trace[r][i].out.ok
\* C8: a failed assessment call is the last thing the request does.  A failed
\* prompt assessment returns the assessment error without a backend call; a
\* failed assessment of a non-streaming response returns the assessment error
\* and no body; a failed assessment in a stream ends the stream with nothing
\* relayed beyond the chunks already covered by safe assessments.
C8_FailClosed ==
    \A r \in Reqs : \A i \in Positions(r) :
        FailedAssessAt(r, i) =>
            /\ i = Len(trace[r])
            /\ pc[r] = "done"
            /\ trace[r][i].is_prompt =>
                  (result[r] = ErrResult("assessment") /\ ~Forwarded(r))
            /\ trace[r][i].src = "response" => result[r] = ErrResult("assessment")
            /\ trace[r][i].src = "stream" =>
                  /\ sstate[r] = "FAILED" /\ pending[r] = <<>>
                  /\ relayed[r] = SubSeq(emitted[r], 1, SafeCovered(r))
                  /\ Len(relayed[r]) < Len(emitted[r])

\* the assessment of a parsed generate response failed
C8_Witness ==
    \E r \in Reqs :
        /\ request[r].kind = "generate" /\ ResponseAssessed(r)
        /\ ~ResponseVerdict(r).ok
        /\ body_bytes[r].json = "ok"

\* C9: every assessment of a chat message or of the generate prompt carries
\* is_prompt = true and every assessment of the non-streaming response content
\* or of the accumulated stream text carries is_prompt = false.
C9_DirectionFlag ==
    \A r \in Reqs : \A i \in Positions(r) :
        IsAssess(trace[r][i]) =>
            LET e == trace[r][i] IN
            /\ e.src \in {"message", "prompt", "response", "stream"}
            /\ e.src \in {"message", "prompt"} =>
                  (e.is_prompt = TRUE /\ e.text = request[r].messages[e.pos])
            /\ e.src = "response" =>
                  (e.is_prompt = FALSE /\ e.text = body_bytes[r].content)
            /\ e.src = "stream" =>
                  (e.is_prompt = FALSE /\ e.text = Concat(SubSeq(emitted[r], 1, e.pos)))

\* a chat request with an assessed message and an assessed response
C9_Witness ==
    \E r \in Reqs :
        /\ request[r].kind = "chat" /\ ResponseAssessed(r)
        /\ IsAssess(trace[r][1]) /\ trace[r][1].src = "message"

NForwards(r) == Cardinality({i \in Positions(r) : IsForward(trace[r][i])})
BackendAssessed(r) ==
    \E i \in Positions(r) : IsAssess(trace[r][i]) /\ trace[r][i].src \in {"response", "stream"}
BackendErrors == {ErrResult("backend"), ErrResult("read_body"), ErrResult("parse")}
\* C11: a failed backend call returns the backend error, an unparsable body
\* returns the parse error, and a request that ended with a backend, body-read
\* or parse error made exactly one backend call and no assessment of backend
\* text; none of these ends with a violation response.
C11_BackendFailureIsInternalError ==
    \A r \in Reqs :
        /\ \A i \in Positions(r) :
              (IsForward(trace[r][i]) /\ ~trace[r][i].ok) =>
                  (i = Len(trace[r]) /\ pc[r] = "done" /\ result[r] = ErrResult("backend"))
        /\ (pc[r] = "done" /\ body_bytes[r] # NoBytes /\ body_bytes[r].json # "ok") =>
              result[r] = ErrResult("parse")
        /\ result[r] \in BackendErrors =>
              (pc[r] = "done" /\ NForwards(r) = 1 /\ ~BackendAssessed(r))

\* a generate request whose backend body is JSON of another shape
C11_Witness ==
    \E r \in Reqs :
        /\ request[r].kind = "generate" /\ pc[r] = "done"
        /\ body_bytes[r] # NoBytes /\ body_bytes[r].json = "wrong_shape"
        /\ result[r] = ErrResult("parse")

\* C12: in a chat request whose first unsafe verdict is that of message i,
\* the events of the request are exactly the assessments of messages 1..i in
\* order, those before i safe; no later message is assessed and the violation
\* message returned is the one formatted from the verdict of message i.
C12_FailFast ==
    \A r \in Reqs : \A i \in Positions(r) :
        (request[r].kind = "chat" /\ UnsafePromptAt(r, i)) =>
            /\ Len(trace[r]) = i /\ i <= NMsgs(r)
            /\ \A j \in 1..i :
                  /\ IsAssess(trace[r][j]) /\ trace[r][j].src = "message"
                  /\ trace[r][j].pos = j
                  /\ trace[r][j].text = request[r].messages[j]
                  /\ j < i => (trace[r][j].out.ok /\ trace[r][j].out.is_safe)
            /\ result[r].tag = "response"
            /\ result[r].body.content = format_security_violation_message(trace[r][i].out)

\* a chat request of two messages whose first message was judged unsafe
C12_Witness ==
    \E r \in Reqs :
        /\ request[r].kind = "chat" /\ NMsgs(r) = 2
        /\ pc[r] = "done" /\ Len(trace[r]) = 1
        /\ UnsafePromptAt(r, 1)
        /\ trace[r][1].out.detail = "d2"

ResponseAssessAt(r, i) == IsAssess(trace[r][i]) /\ trace[r][i].src = "response"
NResponseAssess(r) == Cardinality({i \in Positions(r) : ResponseAssessAt(r, i)})
\* C13: a non-streaming request makes at most one response assessment; it is
\* made on the content parsed from the backend body, after the backend call
\* returned, and while nothing has been delivered; every response delivered
\* after a backend call has exactly one response assessment before it.
C13_OneResponseAssessment ==
    \A r \in Reqs :
        /\ NResponseAssess(r) <= 1
        /\ \A i \in Positions(r) :
              ResponseAssessAt(r, i) =>
                  /\ Stream(r) = Some(FALSE) /\ i = Len(trace[r])
                  /\ idx[r] > NMsgs(r)
                  /\ \E j \in 1..(i - 1) : IsForward(trace[r][j]) /\ trace[r][j].ok
                  /\ body_bytes[r] # NoBytes
                  /\ trace[r][i].text = from_slice(body_bytes[r]).content
        /\ pc[r] = "assess_response" => (result[r] = NoResult /\ NResponseAssess(r) = 0)
        /\ (result[r].tag = "response" /\ Forwarded(r)) => NResponseAssess(r) = 1
        /\ (pc[r] = "done" /\ response_body[r] # NoTyped) => NResponseAssess(r) = 1

\* a generate request that delivered a response after its assessment
C13_Witness ==
    \E r \in Reqs :
        /\ request[r].kind = "generate" /\ result[r].tag = "response"
        /\ Forwarded(r) /\ NResponseAssess(r) = 1

\* C14: a non-streaming response whose verdict is unsafe is delivered as a
\* violation response whose content is the formatted violation message and
\* not the verdict's final_content, also when the verdict is masked.
C14_UnsafeBeforeMasked ==
    \A r \in Reqs :
        (ResponseAssessed(r) /\ ResponseVerdict(r).ok /\ ~ResponseVerdict(r).is_safe) =>
            /\ result[r].tag = "response" /\ result[r].status = "violation"
            /\ result[r].body.content = format_security_violation_message(ResponseVerdict(r))
            /\ result[r].body.content # ResponseVerdict(r).final_content

\* a generate response judged unsafe and masked
C14_Witness ==
    \E r \in Reqs :
        /\ request[r].kind = "generate" /\ ResponseAssessed(r)
        /\ ResponseVerdict(r).ok /\ ~ResponseVerdict(r).is_safe /\ ResponseVerdict(r).is_masked
        /\ ResponseVerdict(r).final_content = MaskedText

\* C15: a request without a stream field (stream = None) is handled to the
\* end: it finishes with a response, a stream or a declared error, never by
\* aborting.
C15_AbsentStreamHandled ==
    \A r \in Reqs :
        (pc[r] = "done" /\ is_none(Stream(r))) =>
            result[r].tag \in {"response", "stream", "error"}

FinalArrived(r) == Len(emitted[r]) > 0 /\ emitted[r][Len(emitted[r])].done
\* the event at position i is the assessment of the complete accumulated text
FinalAssessAt(r, i) ==
    /\ IsAssess(trace[r][i]) /\ trace[r][i].src = "stream"
    /\ trace[r][i].pos = Len(emitted[r])
    /\ trace[r][i].text = Concat(emitted[r])
NFinalAssess(r) == Cardinality({i \in Positions(r) : FinalAssessAt(r, i)})
\* C16: once the backend's chunk with done = true has arrived, the next step
\* of the stream is one assessment of the complete accumulated text; the
\* final chunk is relayed, and the stream is DONE, only after that assessment
\* returned safe.
C16_FinalAssessmentBeforeDone ==
    \A r \in Reqs :
        /\ FinalArrived(r) =>
              /\ pc[r] \in {"stream_assess", "done"}
              /\ pc[r] = "stream_assess" => (NFinalAssess(r) = 0 /\ sstate[r] # "DONE")
              /\ pc[r] = "done" => NFinalAssess(r) = 1
        /\ \A p \in Positions(r) :
              (IsRelay(trace[r][p]) /\ emitted[r][trace[r][p].pos].done) =>
                  \E i \in 1..(p - 1) :
                      FinalAssessAt(r, i) /\ trace[r][i].out.ok /\ trace[r][i].out.is_safe
        /\ sstate[r] = "DONE" =>
              /\ FinalArrived(r)
              /\ \E i \in Positions(r) :
                    FinalAssessAt(r, i) /\ trace[r][i].out.ok /\ trace[r][i].out.is_safe

\* a stream assessed every two chunks whose third, final chunk was assessed
\* alone and relayed
C16_Witness ==
    \E r \in Reqs :
        /\ sstate[r] = "DONE" /\ cadence[r] = 2 /\ Len(emitted[r]) = 3
        /\ Len(relayed[r]) = 3

\* C17: the request forwarded to the backend is the request the handler
\* received (same model, messages or prompt, stream flag), on the path of its
\* endpoint, also when a prompt verdict was safe and masked; the handler
\* never changes the request it received.
C17_ForwardedRequestUnchanged ==
    /\ [](\A r \in Reqs : \A i \in Positions(r) :
            IsForward(trace[r][i]) =>
                /\ trace[r][i].req = request[r]
                /\ trace[r][i].req.model = request[r].model
                /\ trace[r][i].req.messages = request[r].messages
                /\ trace[r][i].req.stream = request[r].stream
                /\ trace[r][i].path = Path(r))
    /\ [][\A r \in Reqs : pc[r] # "idle" => request'[r] = request[r]]_vars

\* a non-streaming request forwarded after a safe, masked prompt verdict
C17_Witness ==
    \E r \in Reqs :
        /\ Forwarded(r) /\ Stream(r) = Some(FALSE) /\ NMsgs(r) >= 1
        /\ IsAssess(trace[r][1]) /\ trace[r][1].is_prompt
        /\ trace[r][1].out.ok /\ trace[r][1].out.is_safe /\ trace[r][1].out.is_masked
        /\ trace[r][1].out.final_content # request[r].messages[1]

\* C19: every backend forward call comes after a completed prompt assessment
\* of the same request that returned safe.
C19_ForwardAfterSafePrompt ==
    \A r \in Reqs : \A i \in Positions(r) :
        IsForward(trace[r][i]) =>
            \E j \in 1..(i - 1) :
                /\ IsAssess(trace[r][j]) /\ trace[r][j].is_prompt
                /\ trace[r][j].out.ok /\ trace[r][j].out.is_safe

MetricsFound(r) == \E i \in Positions(r) : trace[r][i].ev = "metrics" /\ trace[r][i].found
MetricsTried(r) == \E i \in Positions(r) : trace[r][i].ev = "metrics"
\* C18: two non-streaming requests of the same endpoint that read the same
\* backend body and received the same response verdict (or both none) end with
\* the same result, whatever their metrics extractions found; a parsed body
\* always reaches its verdict.
C18_MetricsOffVerdictPath ==
    /\ \A r \in Reqs :
          (pc[r] = "done" /\ body_bytes[r] # NoBytes /\ body_bytes[r].json = "ok") =>
              ResponseAssessed(r)
    /\ \A r \in Reqs : \A s \in Reqs :
          (/\ pc[r] = "done" /\ pc[s] = "done"
           /\ request[r].kind = request[s].kind
           /\ body_bytes[r] # NoBytes /\ body_bytes[r] = body_bytes[s]
           /\ ResponseAssessed(r) = ResponseAssessed(s)
           /\ ResponseAssessed(r) => ResponseVerdict(r) = ResponseVerdict(s)) =>
              result[r] = result[s]

\* two generate requests with the same body and the same safe verdict, one
\* whose metrics were extracted and one whose were not
C18_Witness ==
    /\ request["r1"].kind = "generate" /\ request["r2"].kind = "generate"
    /\ ResponseAssessed("r1") /\ ResponseAssessed("r2")
    /\ body_bytes["r1"] = body_bytes["r2"]
    /\ ResponseVerdict("r1") = ResponseVerdict("r2")
    /\ ResponseVerdict("r1").ok /\ ResponseVerdict("r1").is_safe
    /\ MetricsFound("r1") /\ MetricsTried("r2") /\ ~MetricsFound("r2")
    /\ result["r1"].tag = "response"

\* everything the task of request r owns
Local(r) ==
    <<request[r], pc[r], idx[r], trace[r], body_bytes[r], response_body[r], result[r],
      sstate[r], cadence[r], emitted[r], acc[r], pending[r], relayed[r]>>
LastEv(r) == trace[r][Len(trace[r])]
\* the result of a finished request is the one its own events determine
OwnOutcome(r) ==
    /\ result[r].tag = "error" =>
          \/ Len(trace[r]) > 0 /\ IsAssess(LastEv(r)) /\ ~LastEv(r).out.ok
                /\ result[r] = ErrResult("assessment")
          \/ Len(trace[r]) > 0 /\ IsForward(LastEv(r)) /\ ~LastEv(r).ok
                /\ result[r] = ErrResult("backend")
          \/ Len(trace[r]) > 0 /\ IsForward(LastEv(r)) /\ LastEv(r).ok
                /\ body_bytes[r] = NoBytes /\ result[r] = ErrResult("read_body")
          \/ body_bytes[r] # NoBytes /\ body_bytes[r].json # "ok"
                /\ result[r] = ErrResult("parse")
    /\ (result[r].tag = "response" /\ result[r].status = "violation") =>
          /\ Len(trace[r]) > 0 /\ IsAssess(LastEv(r))
          /\ LastEv(r).out.ok /\ ~LastEv(r).out.is_safe
          /\ result[r].body.content = format_security_violation_message(LastEv(r).out)
    /\ (result[r].tag = "response" /\ result[r].status = "json") =>
          /\ ResponseAssessed(r) /\ ResponseVerdict(r).ok /\ ResponseVerdict(r).is_safe
          /\ \/ result[r].body = body_bytes[r]
             \/ /\ ResponseVerdict(r).is_masked
                /\ result[r].body.content = ResponseVerdict(r).final_content
    /\ (Len(trace[r]) > 0 /\ IsAssess(LastEv(r)) /\ LastEv(r).out.ok /\ LastEv(r).out.is_safe
          /\ LastEv(r).src = "response") =>
          (result[r].tag = "response" /\ result[r].status = "json")

\* C20: with two requests handled at the same time, every step changes the
\* state of one request only, and each finished request has the result that
\* its own verdicts, backend answer and body determine: an unsafe verdict or
\* a failure of the other request changes nothing of it.
C20_RequestsIndependent ==
    /\ [](\A r \in Reqs : pc[r] = "done" => OwnOutcome(r))
    /\ [][\E r \in Reqs : \A s \in Reqs \ {r} : Local(s)' = Local(s)]_vars

\* one request ended with a violation response while the other, interleaved
\* with it, delivered the backend body unchanged
C20_Witness ==
    /\ result["r1"].tag = "response" /\ result["r1"].status = "violation"
    /\ result["r2"].tag = "response" /\ result["r2"].status = "json"
    /\ result["r2"].body = body_bytes["r2"]
    /\ Len(trace["r1"]) > 0 /\ Len(trace["r2"]) > 0
    /\ LastEv("r1").src = "response"

TypeOK == \A r \in Reqs : pc[r] \in {"idle", "entry", "screen", "streaming", "non_streaming", "parse", "assess_response", "stream_recv", "stream_assess", "done"}
====
